---- MODULE Spec2Model ----
(***************************************************************************)
(* Model of the gaze / engagement detector (gaze_tracking.py) and of the   *)
(* /gaze request handler that drives it (app.py).                          *)
(*                                                                         *)
(* Time is counted in ticks; TicksPerHalfSecond ticks make 0.5 s, so the   *)
(* two debounce thresholds of the code (1.0 s and 0.5 s) are exact.        *)
(* Floating point numbers are modelled in fixed point: a real x is the     *)
(* integer x * Precision, truncated toward zero.  Pixel coordinates are    *)
(* integers.                                                               *)
(***************************************************************************)
EXTENDS Integers, Sequences, FiniteSets, TLC

\* ------------------------------------------------------------- bounds ----
\* resolution of the model clock: ticks per 0.5 s
TicksPerHalfSecond == 2
\* the clock is followed up to this reading, in ticks
MaxTime == 8
\* largest advance of the clock between two readings, in ticks
MaxStep == 3
\* fixed-point scale of the modelled floating point numbers
Precision == 1000
\* at most this many combined gaze vectors are pushed in the detector runs
MaxGazeFrames == 3
\* the gaze history is followed over this many frames of a calibrated viewer
MaxHistoryFrames == 12
\* the 1200 characters a chat message is cut to, in the model's shorter texts
TextLimit == 2
\* the chat is followed until this many messages have been remembered
MaxChatMessages == 14

\* ---------------------------------------------------------- constants ----
\* Python's None is the empty tuple and a present number x is <<x>>
None == <<>>
Some(x) == <<x>>
Val(o) == o[1]

ENGAGEMENT_ANGLE_THRESHOLD == 5
ENGAGEMENT_TIME_THRESHOLD == 2 * TicksPerHalfSecond
DISENGAGEMENT_TIME_THRESHOLD == TicksPerHalfSecond
base_radius == 20
GAZE_HISTORY_MAXLEN == 10
CHAT_HISTORY_MAXLEN == 10

\* ------------------------------------------------- numeric primitives ----
\* integer division truncating toward zero
Div(a, b) == IF a >= 0 THEN a \div b ELSE -((-a) \div b)

\* Newton's iteration from a start x >= sqrt(n): the floor of the square root
RECURSIVE SqrtNewton(_, _)
SqrtNewton(n, x) ==
    LET y == (x + (n \div x)) \div 2
    IN  IF y >= x THEN x ELSE SqrtNewton(n, y)

\* floor of the square root
ISqrt(n) ==
    IF n = 0 THEN 0
    ELSE SqrtNewton(n, IF n < 10000 THEN 100
                       ELSE IF n < 4000000 THEN 2000
                       ELSE IF n < 400000000 THEN 20000
                       ELSE 46341)

Dot(u, v) == u[1] * v[1] + u[2] * v[2] + u[3] * v[3]
VAdd(u, v) == <<u[1] + v[1], u[2] + v[2], u[3] + v[3]>>
VSub(u, v) == <<u[1] - v[1], u[2] - v[2], u[3] - v[3]>>
VScale(k, v) == <<k * v[1], k * v[2], k * v[3]>>
VDiv(v, k) == <<Div(v[1], k), Div(v[2], k), Div(v[3], k)>>

Abs(x) == IF x < 0 THEN -x ELSE x
MaxAbs(v) ==
    LET a == Abs(v[1])
        b == Abs(v[2])
        c == Abs(v[3])
    IN  IF a >= b /\ a >= c THEN a ELSE IF b >= c THEN b ELSE c

\* np.linalg.norm of an integer vector; a long vector is scaled down before
\* it is squared, so that the squares stay within the 32-bit integers of TLC
Norm(v) ==
    LET k == (MaxAbs(v) \div 20000) + 1
    IN  k * ISqrt(Dot(VDiv(v, k), VDiv(v, k)))

\* v / np.linalg.norm(v): a unit vector in fixed point
Normalize(v) == VDiv(VScale(Precision, v), Norm(v))

\* 3x3 matrices are tuples of rows
Col(R, i) == <<R[1][i], R[2][i], R[3][i]>>
Transpose(R) == <<Col(R, 1), Col(R, 2), Col(R, 3)>>
MatVec(R, v) == <<Dot(R[1], v), Dot(R[2], v), Dot(R[3], v)>>
FlipCol(R, i) == [r \in 1..3 |-> [c \in 1..3 |-> IF c = i THEN -R[r][c] ELSE R[r][c]]]

RECURSIVE SumSeq(_)
SumSeq(s) == IF s = <<>> THEN <<0, 0, 0>> ELSE VAdd(Head(s), SumSeq(Tail(s)))

\* np.mean(points, axis=0)
MeanSeq(s) == VDiv(SumSeq(s), Len(s))

\* cos(k degrees) * 10^6 for k = 0..180, at index k + 1
CosTable == <<
    1000000, 999848, 999391, 998630, 997564, 996195, 994522, 992546,
    990268, 987688, 984808, 981627, 978148, 974370, 970296, 965926,
    961262, 956305, 951057, 945519, 939693, 933580, 927184, 920505,
    913545, 906308, 898794, 891007, 882948, 874620, 866025, 857167,
    848048, 838671, 829038, 819152, 809017, 798636, 788011, 777146,
    766044, 754710, 743145, 731354, 719340, 707107, 694658, 681998,
    669131, 656059, 642788, 629320, 615661, 601815, 587785, 573576,
    559193, 544639, 529919, 515038, 500000, 484810, 469472, 453990,
    438371, 422618, 406737, 390731, 374607, 358368, 342020, 325568,
    309017, 292372, 275637, 258819, 241922, 224951, 207912, 190809,
    173648, 156434, 139173, 121869, 104528, 87156, 69756, 52336,
    34899, 17452, 0, -17452, -34899, -52336, -69756, -87156,
    -104528, -121869, -139173, -156434, -173648, -190809, -207912, -224951,
    -241922, -258819, -275637, -292372, -309017, -325568, -342020, -358368,
    -374607, -390731, -406737, -422618, -438371, -453990, -469472, -484810,
    -500000, -515038, -529919, -544639, -559193, -573576, -587785, -601815,
    -615661, -629320, -642788, -656059, -669131, -681998, -694658, -707107,
    -719340, -731354, -743145, -754710, -766044, -777146, -788011, -798636,
    -809017, -819152, -829038, -838671, -848048, -857167, -866025, -874620,
    -882948, -891007, -898794, -906308, -913545, -920505, -927184, -933580,
    -939693, -945519, -951057, -956305, -961262, -965926, -970296, -974370,
    -978148, -981627, -984808, -987688, -990268, -992546, -994522, -996195,
    -997564, -998630, -999391, -999848, -1000000 >>

\* the largest k in lo..hi with cos(k degrees) >= c, given cos(lo degrees) >= c
RECURSIVE ArccosSearch(_, _, _)
ArccosSearch(c, lo, hi) ==
    IF lo >= hi THEN lo
    ELSE LET mid == (lo + hi + 1) \div 2
         IN  IF CosTable[mid + 1] * Precision >= c * 1000000
             THEN ArccosSearch(c, mid, hi)
             ELSE ArccosSearch(c, lo, mid - 1)

\* np.degrees(np.arccos(c)) for a fixed-point cosine c in -1.0..1.0, in whole
\* degrees (rounded down)
ArccosDegrees(c) == ArccosSearch(c, 0, 180)

\* np.clip(c, -1.0, 1.0)
Clip(c) == IF c > Precision THEN Precision ELSE IF c < -Precision THEN -Precision ELSE c

\* ------------------------------------------------------- input frames ----
\* A frame in which the landmark provider finds a face carries the nose
\* landmarks, the two iris landmarks (all already scaled to pixels, as
\* [lm.x * w, lm.y * h, lm.z * w]) and the rotation basis that the eigen
\* decomposition and the Euler round trip of compute_head_pose produce for
\* these landmarks.
Identity == << <<1, 0, 0>>, <<0, 1, 0>>, <<0, 0, 1>> >>
RotZ180 == << <<-1, 0, 0>>, <<0, -1, 0>>, <<0, 0, 1>> >>
RotZ90 == << <<0, -1, 0>>, <<1, 0, 0>>, <<0, 0, 1>> >>

NoseFar == << <<8, 10, 0>>, <<12, 10, 0>>, <<10, 13, 0>> >>
NoseNear == << <<6, 9, 0>>, <<14, 9, 0>>, <<10, 15, 0>> >>

FaceFrames == {"center", "away", "near", "flip"}
NoFace == "noface"
Frames == FaceFrames \cup {NoFace}

Landmarks(f) ==
    CASE f = "center" -> [nose |-> NoseFar, left_iris |-> <<6, 8, 2>>,
                          right_iris |-> <<14, 8, 2>>, basis |-> Identity]
      [] f = "away"   -> [nose |-> NoseFar, left_iris |-> <<12, 8, 2>>,
                          right_iris |-> <<20, 8, 2>>, basis |-> Identity]
      [] f = "near"   -> [nose |-> NoseNear, left_iris |-> <<2, 5, 4>>,
                          right_iris |-> <<18, 5, 4>>, basis |-> Identity]
      [] f = "flip"   -> [nose |-> NoseFar, left_iris |-> <<6, 8, 2>>,
                          right_iris |-> <<14, 8, 2>>, basis |-> RotZ180]

\* results.multi_face_landmarks is non-empty
HasFace(f) == f \in FaceFrames

\* -------------------------------------------------------- the detector ----
VARIABLES
    state,                          \* self.state
    state_change_time,              \* self.state_change_time
    left_sphere_locked,
    right_sphere_locked,
    left_sphere_local_offset,
    right_sphere_local_offset,
    left_calibration_nose_scale,
    right_calibration_nose_scale,
    R_ref_nose,                     \* self.R_ref_nose[0]
    gaze_history,                   \* self.gaze_history
    clock,                          \* the latest reading of time.time()
    last,                           \* the latest call: its inputs and what it returned
    pending_since,                  \* reading of the first frame since the last state
                                    \* change whose is_looking opposes the state
    run,                            \* the current run of frames with equal is_looking
    session_calibrated,             \* session['calibrated'] of each browser session
    calibrated_by,                  \* the sessions a /gaze request of which called calibrate
    chat_history,                   \* session['chat_history'] of each browser session
    chat_count                      \* the messages /synthesize has appended for each session

calibVars == <<left_sphere_locked, right_sphere_locked, left_sphere_local_offset,
               right_sphere_local_offset, left_calibration_nose_scale,
               right_calibration_nose_scale>>
vars == <<state, state_change_time, left_sphere_locked, right_sphere_locked,
          left_sphere_local_offset, right_sphere_local_offset,
          left_calibration_nose_scale, right_calibration_nose_scale,
          R_ref_nose, gaze_history, clock, last, pending_since, run,
          session_calibrated, calibrated_by, chat_history, chat_count>>
sessionVars == <<session_calibrated, calibrated_by>>
chatVars == <<chat_history, chat_count>>

\* the browser sessions (Flask keeps one session cookie for each)
Sessions == {"s1", "s2"}

\* the detector instance, as one record
Self ==
    [state |-> state,
     state_change_time |-> state_change_time,
     left_sphere_locked |-> left_sphere_locked,
     right_sphere_locked |-> right_sphere_locked,
     left_sphere_local_offset |-> left_sphere_local_offset,
     right_sphere_local_offset |-> right_sphere_local_offset,
     left_calibration_nose_scale |-> left_calibration_nose_scale,
     right_calibration_nose_scale |-> right_calibration_nose_scale,
     R_ref_nose |-> R_ref_nose,
     gaze_history |-> gaze_history]

\* ScreenEngagementDetector.__init__
NewDetector ==
    [state |-> "DISENGAGED",
     state_change_time |-> None,
     left_sphere_locked |-> FALSE,
     right_sphere_locked |-> FALSE,
     left_sphere_local_offset |-> None,
     right_sphere_local_offset |-> None,
     left_calibration_nose_scale |-> None,
     right_calibration_nose_scale |-> None,
     R_ref_nose |-> None,
     gaze_history |-> <<>>]

\* the calibration fields of a detector
CalibrationOf(self) ==
    <<self.left_sphere_locked, self.right_sphere_locked,
      self.left_sphere_local_offset, self.right_sphere_local_offset,
      self.left_calibration_nose_scale, self.right_calibration_nose_scale>>

\* compute_scale: the mean pairwise distance of the points, 1.0 without a pair
Distance(p, q) == ISqrt(Dot(VSub(p, q), VSub(p, q)) * Precision * Precision)

RECURSIVE SumDistances(_, _, _)
SumDistances(points, i, j) ==
    IF i >= Len(points) THEN 0
    ELSE IF j > Len(points) THEN SumDistances(points, i + 1, i + 2)
    ELSE Distance(points[i], points[j]) + SumDistances(points, i, j + 1)

compute_scale(points) ==
    LET n == Len(points)
        total == SumDistances(points, 1, 2)
        count == (n * (n - 1)) \div 2
    IN  IF count > 0 THEN Div(total, count) ELSE Precision

\* the sign stabilisation of compute_head_pose: each axis whose projection on
\* the reference axis is negative is flipped
RECURSIVE Stabilize(_, _, _)
Stabilize(R, R_ref, i) ==
    IF i > 3 THEN R
    ELSE IF Dot(Col(R, i), Col(R_ref, i)) < 0
         THEN Stabilize(FlipCol(R, i), R_ref, i + 1)
         ELSE Stabilize(R, R_ref, i + 1)

\* compute_head_pose that makes each frame's rotation the new reference
compute_head_pose_follows(self, f) ==
    LET points_3d == Landmarks(f).nose
        center == MeanSeq(points_3d)
        R_raw == Landmarks(f).basis
        R_final == IF self.R_ref_nose = None THEN R_raw
                   ELSE Stabilize(R_raw, self.R_ref_nose, 1)
    IN  [center |-> center, R_final |-> R_final, points_3d |-> points_3d,
         self |-> [self EXCEPT !.R_ref_nose = R_raw]]

\* compute_head_pose: the returned center, rotation and points, and the
\* detector (with its reference rotation) after the call
compute_head_pose(self, f) ==
    LET points_3d == Landmarks(f).nose
        center == MeanSeq(points_3d)
        R_raw == Landmarks(f).basis
    IN  IF self.R_ref_nose = None
        THEN [center |-> center, R_final |-> R_raw, points_3d |-> points_3d,
              self |-> [self EXCEPT !.R_ref_nose = R_raw]]
        ELSE [center |-> center, R_final |-> Stabilize(R_raw, self.R_ref_nose, 1),
              points_3d |-> points_3d, self |-> self]

\* the sphere offset calibrate stores for one eye: the iris in head
\* coordinates, moved by base_radius along the camera direction
sphere_local_offset(R_final, iris_3d, head_center) ==
    LET camera_dir_world == <<0, 0, 1>>
        camera_dir_local == MatVec(Transpose(R_final), camera_dir_world)
    IN  VAdd(MatVec(Transpose(R_final), VSub(iris_3d, head_center)),
             VScale(base_radius, camera_dir_local))

\* calibrate that moves an offset it already holds instead of replacing it
calibrate_accumulates(self, f, head_center, R_final, nose_points_3d) ==
    LET current_nose_scale == compute_scale(nose_points_3d)
        moved(old, iris_3d) ==
            IF old = None THEN sphere_local_offset(R_final, iris_3d, head_center)
            ELSE VAdd(old, VScale(base_radius,
                                  MatVec(Transpose(R_final), <<0, 0, 1>>)))
    IN  [self EXCEPT
         !.left_sphere_local_offset =
             moved(self.left_sphere_local_offset, Landmarks(f).left_iris),
         !.left_calibration_nose_scale = Some(current_nose_scale),
         !.left_sphere_locked = TRUE,
         !.right_sphere_local_offset =
             moved(self.right_sphere_local_offset, Landmarks(f).right_iris),
         !.right_calibration_nose_scale = Some(current_nose_scale),
         !.right_sphere_locked = TRUE]

\* calibrate that takes the right eye's reference scale from a unit scale
\* instead of the nose points of the frame
calibrate_right_unscaled(self, f, head_center, R_final, nose_points_3d) ==
    LET current_nose_scale == compute_scale(nose_points_3d)
    IN  [self EXCEPT
         !.left_sphere_local_offset =
             sphere_local_offset(R_final, Landmarks(f).left_iris, head_center),
         !.left_calibration_nose_scale = Some(current_nose_scale),
         !.left_sphere_locked = TRUE,
         !.right_sphere_local_offset =
             sphere_local_offset(R_final, Landmarks(f).right_iris, head_center),
         !.right_calibration_nose_scale = Some(Precision),
         !.right_sphere_locked = TRUE]

\* calibrate that also empties the gaze history
calibrate_clears_history(self, f, head_center, R_final, nose_points_3d) ==
    LET current_nose_scale == compute_scale(nose_points_3d)
    IN  [self EXCEPT
         !.left_sphere_local_offset =
             sphere_local_offset(R_final, Landmarks(f).left_iris, head_center),
         !.left_calibration_nose_scale = Some(current_nose_scale),
         !.left_sphere_locked = TRUE,
         !.right_sphere_local_offset =
             sphere_local_offset(R_final, Landmarks(f).right_iris, head_center),
         !.right_calibration_nose_scale = Some(current_nose_scale),
         !.right_sphere_locked = TRUE,
         !.gaze_history = <<>>]

\* calibrate: the detector after the call
calibrate(self, f, head_center, R_final, nose_points_3d) ==
    LET current_nose_scale == compute_scale(nose_points_3d)
        iris_3d_left == Landmarks(f).left_iris
        iris_3d_right == Landmarks(f).right_iris
    IN  [self EXCEPT
         !.left_sphere_local_offset =
             sphere_local_offset(R_final, iris_3d_left, head_center),
         !.left_calibration_nose_scale = Some(current_nose_scale),
         !.left_sphere_locked = TRUE,
         !.right_sphere_local_offset =
             sphere_local_offset(R_final, iris_3d_right, head_center),
         !.right_calibration_nose_scale = Some(current_nose_scale),
         !.right_sphere_locked = TRUE]

\* calculate_gaze_angle, in whole degrees
calculate_gaze_angle(gaze_direction) ==
    LET screen_normal == <<0, 0, -1>>
        gaze_norm == Normalize(gaze_direction)
        cos_angle == Dot(gaze_norm, screen_normal)
    IN  ArccosDegrees(Clip(cos_angle))

\* a deque that makes room by dropping its newest entry
PushDropsNewest(history, v) ==
    IF Len(history) >= GAZE_HISTORY_MAXLEN
    THEN Append(SubSeq(history, 1, Len(history) - 1), v)
    ELSE Append(history, v)

\* deque(maxlen=10).append
Push(history, v) ==
    IF Len(history) >= GAZE_HISTORY_MAXLEN THEN Append(Tail(history), v)
    ELSE Append(history, v)

\* _compute_gaze_direction: the history after the push and the smoothed gaze
compute_gaze_direction(history, sphere_world_l, sphere_world_r, iris_l, iris_r) ==
    LET left_gaze_dir == Normalize(VSub(iris_l, sphere_world_l))
        right_gaze_dir == Normalize(VSub(iris_r, sphere_world_r))
        combined_gaze == Normalize(VDiv(VAdd(left_gaze_dir, right_gaze_dir), 2))
        h == Push(history, combined_gaze)
    IN  [gaze_history |-> h, smoothed_gaze |-> Normalize(MeanSeq(h))]

\* _should_change_state with the two thresholds taken for one another
should_change_state_swapped(self, current_time, is_engaging) ==
    IF self.state_change_time = None THEN FALSE
    ELSE LET threshold == IF is_engaging THEN DISENGAGEMENT_TIME_THRESHOLD
                                         ELSE ENGAGEMENT_TIME_THRESHOLD
         IN  current_time - Val(self.state_change_time) >= threshold

\* _should_change_state
should_change_state(self, current_time, is_engaging) ==
    IF self.state_change_time = None THEN FALSE
    ELSE LET threshold == IF is_engaging THEN ENGAGEMENT_TIME_THRESHOLD
                                         ELSE DISENGAGEMENT_TIME_THRESHOLD
         IN  current_time - Val(self.state_change_time) >= threshold

\* _handle_looking_at_screen with the pending timestamp recorded again on
\* every frame, so that it never gets old
handle_looking_at_screen_restamps(self, current_time) ==
    IF self.state = "DISENGAGED"
    THEN [self EXCEPT !.state_change_time = Some(current_time)]
    ELSE IF self.state = "TRANSITIONING"
         THEN [self EXCEPT !.state = "ENGAGED", !.state_change_time = None]
         ELSE self

\* _handle_looking_at_screen that passes through TRANSITIONING while the
\* engagement is pending
handle_looking_at_screen_transitioning(self, current_time) ==
    IF self.state = "DISENGAGED"
    THEN [self EXCEPT !.state = "TRANSITIONING",
                      !.state_change_time = Some(current_time)]
    ELSE IF self.state = "TRANSITIONING"
         THEN IF should_change_state(self, current_time, TRUE)
              THEN [self EXCEPT !.state = "ENGAGED", !.state_change_time = None]
              ELSE self
         ELSE self

\* _handle_looking_at_screen that leaves the timestamp in place when it
\* commits
handle_looking_at_screen_keeps_stamp(self, current_time) ==
    IF self.state = "DISENGAGED"
    THEN IF self.state_change_time = None
         THEN [self EXCEPT !.state_change_time = Some(current_time)]
         ELSE IF should_change_state(self, current_time, TRUE)
              THEN [self EXCEPT !.state = "ENGAGED"]
              ELSE self
    ELSE IF self.state = "TRANSITIONING"
         THEN [self EXCEPT !.state = "ENGAGED", !.state_change_time = None]
         ELSE self

\* _handle_looking_at_screen
handle_looking_at_screen(self, current_time) ==
    IF self.state = "DISENGAGED"
    THEN IF self.state_change_time = None
         THEN [self EXCEPT !.state_change_time = Some(current_time)]
         ELSE IF should_change_state(self, current_time, TRUE)
              THEN [self EXCEPT !.state = "ENGAGED", !.state_change_time = None]
              ELSE self
    ELSE IF self.state = "TRANSITIONING"
         THEN [self EXCEPT !.state = "ENGAGED", !.state_change_time = None]
         ELSE self

\* _handle_looking_away that commits on the second frame, however early
handle_looking_away_no_wait(self, current_time) ==
    IF self.state = "ENGAGED"
    THEN IF self.state_change_time = None
         THEN [self EXCEPT !.state_change_time = Some(current_time)]
         ELSE [self EXCEPT !.state = "DISENGAGED", !.state_change_time = None]
    ELSE IF self.state = "TRANSITIONING"
         THEN [self EXCEPT !.state = "DISENGAGED", !.state_change_time = None]
         ELSE self

\* _handle_looking_away that drops a pending engagement
handle_looking_away_resets(self, current_time) ==
    IF self.state = "ENGAGED"
    THEN IF self.state_change_time = None
         THEN [self EXCEPT !.state_change_time = Some(current_time)]
         ELSE IF should_change_state(self, current_time, FALSE)
              THEN [self EXCEPT !.state = "DISENGAGED", !.state_change_time = None]
              ELSE self
    ELSE IF self.state = "TRANSITIONING"
         THEN [self EXCEPT !.state = "DISENGAGED", !.state_change_time = None]
         ELSE [self EXCEPT !.state_change_time = None]

\* _handle_looking_away
handle_looking_away(self, current_time) ==
    IF self.state = "ENGAGED"
    THEN IF self.state_change_time = None
         THEN [self EXCEPT !.state_change_time = Some(current_time)]
         ELSE IF should_change_state(self, current_time, FALSE)
              THEN [self EXCEPT !.state = "DISENGAGED", !.state_change_time = None]
              ELSE self
    ELSE IF self.state = "TRANSITIONING"
         THEN [self EXCEPT !.state = "DISENGAGED", !.state_change_time = None]
         ELSE self

\* the value update_engagement returns
engaged_result(self) == self.state = "ENGAGED"

\* update_engagement that returns the frame's is_looking_at_screen
update_engagement_returns_gate(self, is_looking_at_screen, current_time) ==
    LET after == IF is_looking_at_screen
                 THEN handle_looking_at_screen(self, current_time)
                 ELSE handle_looking_away(self, current_time)
    IN  [self |-> after, engaged |-> is_looking_at_screen]

\* update_engagement, with current_time the reading of time.time(): the
\* detector after the call and the returned boolean
update_engagement(self, is_looking_at_screen, current_time) ==
    LET after == IF is_looking_at_screen
                 THEN handle_looking_at_screen(self, current_time)
                 ELSE handle_looking_away(self, current_time)
    IN  [self |-> after, engaged |-> engaged_result(after)]

\* the gate of process_frame: gaze_angle < ENGAGEMENT_ANGLE_THRESHOLD
is_looking_gate(gaze_angle) == gaze_angle < ENGAGEMENT_ANGLE_THRESHOLD

\* a frame without a face that counts as looking at the screen
no_face_result_looking(self) ==
    [self |-> self, is_looking |-> TRUE, gaze_angle |-> None]

\* a frame without a face that reports an angle
no_face_result_zero_angle(self) ==
    [self |-> self, is_looking |-> FALSE, gaze_angle |-> Some(0)]

\* a frame without a face that unlocks both spheres
no_face_result_unlocks(self) ==
    [self |-> [self EXCEPT !.left_sphere_locked = FALSE,
                           !.right_sphere_locked = FALSE],
     is_looking |-> FALSE, gaze_angle |-> None]

\* process_frame on a frame without a face: is_looking_at_screen and
\* gaze_angle keep their initial values False and None
no_face_result(self) ==
    [self |-> self, is_looking |-> FALSE, gaze_angle |-> None]

\* an uncalibrated frame that counts as looking at the screen
uncalibrated_result_looking(self) ==
    [self |-> self, is_looking |-> TRUE, gaze_angle |-> None]

\* process_frame on a face frame before both spheres are locked:
\* is_looking_at_screen and gaze_angle keep their initial values
uncalibrated_result(self) ==
    [self |-> self, is_looking |-> FALSE, gaze_angle |-> None]

\* process_frame up to its call of update_engagement: the detector so far, the
\* is_looking_at_screen it hands to update_engagement and the gaze_angle it
\* returns
estimate_gaze(self, f) ==
    IF ~HasFace(f)
    THEN no_face_result(self)
    ELSE
    LET pose == compute_head_pose(self, f)
        s1 == pose.self
    IN  IF ~(s1.left_sphere_locked /\ s1.right_sphere_locked)
        THEN uncalibrated_result(s1)
        ELSE
        LET current_nose_scale == compute_scale(pose.points_3d)
            scale_ratio_l == Div(current_nose_scale * Precision,
                                 Val(s1.left_calibration_nose_scale))
            scale_ratio_r == Div(current_nose_scale * Precision,
                                 Val(s1.right_calibration_nose_scale))
            sphere_world_l ==
                VAdd(VScale(Precision, pose.center),
                     MatVec(pose.R_final,
                            VScale(scale_ratio_l, s1.left_sphere_local_offset)))
            sphere_world_r ==
                VAdd(VScale(Precision, pose.center),
                     MatVec(pose.R_final,
                            VScale(scale_ratio_r, s1.right_sphere_local_offset)))
            g == compute_gaze_direction(s1.gaze_history, sphere_world_l, sphere_world_r,
                     VScale(Precision, Landmarks(f).left_iris),
                     VScale(Precision, Landmarks(f).right_iris))
            gaze_angle == calculate_gaze_angle(g.smoothed_gaze)
        IN  [self |-> [s1 EXCEPT !.gaze_history = g.gaze_history],
             is_looking |-> is_looking_gate(gaze_angle),
             gaze_angle |-> Some(gaze_angle)]

\* the end of process_frame: update_engagement is called at the clock reading
\* current_time with the estimate e, and engaged and gaze_angle are returned
finish_frame(e, current_time) ==
    LET u == update_engagement(e.self, e.is_looking, current_time)
    IN  [self |-> u.self, engaged |-> u.engaged, gaze_angle |-> e.gaze_angle,
         is_looking |-> e.is_looking]

\* a calibration step that unlocks the left sphere when it finds no face
gaze_calibrate_unlocks(self, frame, calibrate_flag) ==
    IF calibrate_flag /\ HasFace(frame)
    THEN LET pose == compute_head_pose(self, frame)
         IN  [self |-> calibrate(pose.self, frame, pose.center, pose.R_final,
                                 pose.points_3d),
              calib_in |-> <<frame, pose.R_final>>]
    ELSE IF calibrate_flag
         THEN [self |-> [self EXCEPT !.left_sphere_locked = FALSE],
               calib_in |-> None]
         ELSE [self |-> self, calib_in |-> None]

\* the calibration step of the /gaze handler: the detector after it and the
\* frame and rotation handed to calibrate (None when calibrate is not called)
gaze_calibrate(self, frame, calibrate_flag) ==
    IF calibrate_flag /\ HasFace(frame)
    THEN LET pose == compute_head_pose(self, frame)
         IN  [self |-> calibrate(pose.self, frame, pose.center, pose.R_final,
                                 pose.points_3d),
              calib_in |-> <<frame, pose.R_final>>]
    ELSE [self |-> self, calib_in |-> None]

\* the status of the /gaze response: 400 without a frame ("missing") or with
\* one that base64 cannot decode ("undecodable"), 500 with bytes that are not
\* an image ("notimage": cv2.imdecode returns None and frame.shape raises),
\* 200 otherwise
gaze_status(frame_data) ==
    IF frame_data = "missing" \/ frame_data = "undecodable" THEN 400
    ELSE IF frame_data = "notimage" THEN 500 ELSE 200

\* ------------------------------------------------------------ actions ----
NoRun == [kind |-> "none", since |-> 0, before |-> None]

\* the readings time.time() can return after the reading clock, up to horizon
Readings(steps, horizon) == {t \in {clock + d : d \in steps} : t <= horizon}

\* the detector's fields become those of the record d
Becomes(d) ==
    /\ state' = d.state
    /\ state_change_time' = d.state_change_time
    /\ left_sphere_locked' = d.left_sphere_locked
    /\ right_sphere_locked' = d.right_sphere_locked
    /\ left_sphere_local_offset' = d.left_sphere_local_offset
    /\ right_sphere_local_offset' = d.right_sphere_local_offset
    /\ left_calibration_nose_scale' = d.left_calibration_nose_scale
    /\ right_calibration_nose_scale' = d.right_calibration_nose_scale
    /\ R_ref_nose' = d.R_ref_nose
    /\ gaze_history' = d.gaze_history

\* bookkeeping of a frame that went through update_engagement at reading now:
\* kind is "looking", "away" or "noface"; the reading of the frame before the
\* run is kept when interruptions is TRUE
Observe(d, kind, now, interruptions) ==
    /\ clock' = now
    /\ pending_since' =
         IF d.state # state THEN None
         ELSE IF pending_since = None
                 /\ \/ state = "DISENGAGED" /\ kind = "looking"
                    \/ state = "ENGAGED" /\ kind # "looking"
              THEN Some(now)
              ELSE pending_since
    /\ run' = IF run.kind = kind THEN run
              ELSE [kind |-> kind, since |-> now,
                    before |-> IF run.kind = "none" \/ ~interruptions THEN None
                               ELSE Some(clock)]

FrameKind(f, is_looking) ==
    IF ~HasFace(f) THEN "noface" ELSE IF is_looking THEN "looking" ELSE "away"

\* what a call leaves in last
Call(op, frame, calibrate_flag, is_looking, engaged, gaze_angle, status, calib_in) ==
    [op |-> op, frame |-> frame, calibrate |-> calibrate_flag,
     is_looking |-> is_looking, engaged |-> engaged, gaze_angle |-> gaze_angle,
     status |-> status, calib_in |-> calib_in,
     repeat |-> calib_in # None /\ calib_in = last.calib_in,
     prev_state |-> state, session |-> "none"]

\* the module-level gaze_detector is the detector of every session
DetectorOf(s) == Self

\* the /gaze handler's write of session['calibrated']: set when the request
\* asks for calibration, before the frame is decoded or a face is looked for
gaze_session(calibrated, calibrate_flag) ==
    IF calibrate_flag THEN TRUE ELSE calibrated

\* the /learn handler: a redirect to the calibration page (302) unless
\* session['calibrated'] is set, the main page (200) otherwise
learn(calibrated) == IF ~calibrated THEN 302 ELSE 200

\* POST /gaze by a session of ss with a frame of fs that decodes, the
\* calibrate flag in cs and the clock advancing by one of steps up to
\* horizon, while no more than frames gaze vectors have been pushed
GazeRequestBy(ss, fs, cs, steps, frames, horizon) ==
    \E s \in ss, f \in fs, c \in cs :
      \E k \in {gaze_calibrate(DetectorOf(s), f, c)} :
        \E e \in {estimate_gaze(k.self, f)} :
          /\ Len(e.self.gaze_history) <= frames
          /\ \E now \in Readings(steps, horizon) :
               \E r \in {finish_frame(e, now)} :
                 /\ Becomes(r.self)
                 /\ Observe(r.self, FrameKind(f, r.is_looking), now, FALSE)
                 /\ session_calibrated' =
                      [session_calibrated EXCEPT
                         ![s] = gaze_session(session_calibrated[s], c)]
                 /\ calibrated_by' = IF k.calib_in # None
                                     THEN calibrated_by \cup {s}
                                     ELSE calibrated_by
                 /\ UNCHANGED chatVars
                 /\ last' = [Call("gaze", IF HasFace(f) THEN "face" ELSE "noface",
                                  c, r.is_looking, r.engaged, r.gaze_angle,
                                  gaze_status(f), k.calib_in)
                             EXCEPT !.session = s]

\* the requests of the one session "s1"
GazeRequestWithin(fs, cs, steps, frames, horizon) ==
    GazeRequestBy({"s1"}, fs, cs, steps, frames, horizon)

GazeRequestOn(fs, cs, steps) ==
    GazeRequestWithin(fs, cs, steps, MaxGazeFrames, MaxTime)

\* POST /gaze by a session of ss without a frame, or with one that does not
\* decode to an image: the handler returns, or raises, before it touches the
\* detector; unless the frame is missing it has set session['calibrated']
\* when the calibrate flag, in cs, is set
GazeBadRequestBy(ss, cs) ==
    \E s \in ss, fd \in {"missing", "undecodable", "notimage"}, c \in cs :
        /\ UNCHANGED <<state, state_change_time, calibVars, R_ref_nose, gaze_history,
                       clock, pending_since, run, calibrated_by, chatVars>>
        /\ session_calibrated' =
             IF fd = "missing" THEN session_calibrated
             ELSE [session_calibrated EXCEPT
                     ![s] = gaze_session(session_calibrated[s], c)]
        /\ last' = [Call("gaze", fd, c, FALSE, FALSE, None, gaze_status(fd), None)
                    EXCEPT !.session = s]

GazeBadRequest == GazeBadRequestBy({"s1"}, {FALSE})

\* GET /learn by a session of ss
LearnBy(ss) ==
    \E s \in ss :
        /\ UNCHANGED <<state, state_change_time, calibVars, R_ref_nose, gaze_history,
                       clock, pending_since, run, sessionVars, chatVars>>
        /\ last' = [Call("learn", "none", FALSE, FALSE, FALSE, None,
                         learn(session_calibrated[s]), None)
                    EXCEPT !.session = s]

\* a direct call of calibrate with the landmarks of a face frame and a head
\* rotation
CalibrateOn(fs, rs) ==
    \E f \in fs, R \in rs :
      \E d \in {calibrate(Self, f, MeanSeq(Landmarks(f).nose), R, Landmarks(f).nose)} :
        /\ Becomes(d)
        /\ UNCHANGED <<clock, pending_since, run, sessionVars, chatVars>>
        /\ last' = Call("calibrate", "face", TRUE, FALSE, FALSE, None, 0, <<f, R>>)

\* a direct call of update_engagement with is_looking in ls; the reading of
\* the frame before each run is kept when interruptions is TRUE
UpdateEngagementTracked(ls, steps, horizon, interruptions) ==
    \E is_looking \in ls, now \in Readings(steps, horizon) :
      \E u \in {update_engagement(Self, is_looking, now)} :
        /\ Becomes(u.self)
        /\ Observe(u.self, IF is_looking THEN "looking" ELSE "away", now,
                   interruptions)
        /\ UNCHANGED <<sessionVars, chatVars>>
        /\ last' = Call("update_engagement", "none", FALSE, is_looking, u.engaged,
                        None, 0, None)

UpdateEngagementOn(ls, steps, horizon) ==
    UpdateEngagementTracked(ls, steps, horizon, TRUE)

\* _t of synthesize: a text longer than the limit is cut to it and "..." is
\* appended
truncate_text(s) ==
    IF Len(s) <= TextLimit THEN s
    ELSE SubSeq(s, 1, TextLimit) \o <<".", ".", ".">>

\* hist[-10:] when hist holds more than 10 messages
keep_last(hist) ==
    IF Len(hist) > CHAT_HISTORY_MAXLEN
    THEN SubSeq(hist, Len(hist) - CHAT_HISTORY_MAXLEN + 1, Len(hist))
    ELSE hist

\* the history after a successful /synthesize request
remember(hist, user_input, ai_response) ==
    keep_last(hist \o <<[role |-> "user", text |-> truncate_text(user_input)],
                        [role |-> "assistant", text |-> truncate_text(ai_response)]>>)

\* synthesize that remembers the exchange before it knows the speech was made
synthesize_remembers_unspoken(hist, user_input, ai_response, audio_file) ==
    IF user_input = <<>> THEN [chat_history |-> hist, status |-> 400]
    ELSE IF ai_response = None THEN [chat_history |-> hist, status |-> 500]
    ELSE IF audio_file
         THEN [chat_history |-> remember(hist, user_input, ai_response),
               status |-> 200]
         ELSE [chat_history |-> remember(hist, user_input, ai_response),
               status |-> 500]

\* synthesize: the session's chat history after the request and the status
\* of the response; user_input is the text of the request (empty when there
\* is none), ai_response what generate_response returned (None, like an
\* empty text, when the model failed) and audio_file whether text_to_speech
\* produced a file
synthesize(hist, user_input, ai_response, audio_file) ==
    IF user_input = <<>> THEN [chat_history |-> hist, status |-> 400]
    ELSE IF ai_response = None THEN [chat_history |-> hist, status |-> 500]
    ELSE IF audio_file
         THEN [chat_history |-> remember(hist, user_input, ai_response),
               status |-> 200]
         ELSE [chat_history |-> hist, status |-> 500]

\* a text of one character c, and one longer than the limit of truncate_text
ShortText(c) == <<c>>
LongText(c) == [i \in 1..(TextLimit + 1) |-> c]
UserInputs == {<<>>, ShortText("u"), LongText("u")}
AiResponses == {None, ShortText("a"), LongText("a")}

\* POST /synthesize by a session of ss, while fewer than MaxChatMessages
\* messages have been remembered for it
SynthesizeBy(ss) ==
    \E s \in ss, user_input \in UserInputs, ai_response \in AiResponses,
       audio_file \in BOOLEAN :
      \E r \in {synthesize(chat_history[s], user_input, ai_response, audio_file)} :
        /\ chat_count[s] < MaxChatMessages
        /\ chat_history' = [chat_history EXCEPT ![s] = r.chat_history]
        /\ chat_count' = [chat_count EXCEPT
                            ![s] = IF r.status = 200 THEN @ + 2 ELSE @]
        /\ UNCHANGED <<state, state_change_time, calibVars, R_ref_nose, gaze_history,
                       clock, pending_since, run, sessionVars>>
        /\ last' = [Call("synthesize", "none", FALSE, FALSE, FALSE, None,
                         r.status, None)
                    EXCEPT !.session = s]

NoCall ==
    [op |-> "init", frame |-> "none", calibrate |-> FALSE, is_looking |-> FALSE,
     engaged |-> FALSE, gaze_angle |-> None, status |-> 0, calib_in |-> None,
     repeat |-> FALSE, prev_state |-> "none", session |-> "none"]

\* a detector d with the clock at reading t and no call made yet; a detector
\* that starts calibrated was calibrated by a request of the session "s1"
Starts(d, t) ==
    /\ state = d.state
    /\ state_change_time = d.state_change_time
    /\ left_sphere_locked = d.left_sphere_locked
    /\ right_sphere_locked = d.right_sphere_locked
    /\ left_sphere_local_offset = d.left_sphere_local_offset
    /\ right_sphere_local_offset = d.right_sphere_local_offset
    /\ left_calibration_nose_scale = d.left_calibration_nose_scale
    /\ right_calibration_nose_scale = d.right_calibration_nose_scale
    /\ R_ref_nose = d.R_ref_nose
    /\ gaze_history = d.gaze_history
    /\ clock = t
    /\ pending_since = d.state_change_time
    /\ run = NoRun
    /\ last = NoCall
    /\ session_calibrated = [s \in Sessions |-> s = "s1" /\ d.left_sphere_locked]
    /\ calibrated_by = IF d.left_sphere_locked THEN {"s1"} ELSE {}
    /\ chat_history = [s \in Sessions |-> <<>>]
    /\ chat_count = [s \in Sessions |-> 0]

Init == Starts(NewDetector, 0)

\* the web application: requests to /gaze of one viewer, who calibrates
\* looking at the screen center, looks at it or away, or leaves the picture
GazeRequest == GazeRequestOn({"center", "away", NoFace}, BOOLEAN, 0..MaxStep)
Next == GazeRequest \/ GazeBadRequest
Spec == Init /\ [][Next]_vars

\* the detector called directly, with every frame and rotation, the clock
\* advancing by MaxStep from call to call
ProcessFrame == GazeRequestOn(Frames, {FALSE}, {MaxStep})
CalibrateRequest == GazeRequestOn(Frames, {TRUE}, {MaxStep})
Calibrate == CalibrateOn(FaceFrames, {Identity, RotZ90})
DetectorNext == ProcessFrame \/ CalibrateRequest \/ Calibrate
DetectorSpec == Init /\ [][DetectorNext]_vars

\* the engagement state machine driven by update_engagement calls alone
UpdateEngagement == UpdateEngagementOn(BOOLEAN, 0..MaxStep, MaxTime)
EngagementNext == UpdateEngagement
EngagementSpec == Init /\ [][EngagementNext]_vars

\* a DISENGAGED detector, with or without a pending timestamp, to which only
\* is_looking=true frames arrive, each at a later clock reading; the frames
\* keep arriving (weak fairness) until the clock leaves the horizon
OneSecond == 2 * TicksPerHalfSecond
HalfSecond == TicksPerHalfSecond
LookingHorizon == MaxTime + OneSecond + 2 * MaxStep
LookingInit ==
    \E t \in 0..MaxTime, p \in {None} \cup {Some(q) : q \in 0..MaxTime} :
        /\ p # None => Val(p) <= t
        /\ Starts([NewDetector EXCEPT !.state_change_time = p], t)
LookingFrame == UpdateEngagementOn({TRUE}, 1..MaxStep, LookingHorizon)
LookingSpec == LookingInit /\ [][LookingFrame]_vars /\ WF_vars(LookingFrame)

\* a viewer calibrated on the frame "center" whose frames, looking at the
\* screen or away, arrive one tick apart: the gaze history fills and evicts
HistoryInit == Starts(gaze_calibrate(NewDetector, "center", TRUE).self, 0)
HistoryFrame ==
    GazeRequestWithin({"center", "away"}, {FALSE}, {1}, MaxHistoryFrames,
                      MaxHistoryFrames)
HistorySpec == HistoryInit /\ [][HistoryFrame]_vars

\* the web application with two browser sessions: each sends frames to /gaze,
\* with or without a face and a calibration request, and asks for /learn
SessionGaze ==
    GazeRequestBy(Sessions, {"center", NoFace}, BOOLEAN, {0, MaxStep},
                  MaxGazeFrames, MaxTime)
SessionBadGaze == GazeBadRequestBy(Sessions, BOOLEAN)
Learn == LearnBy(Sessions)
SessionNext == SessionGaze \/ SessionBadGaze \/ Learn
SessionSpec == Init /\ [][SessionNext]_vars

\* the detector's three public methods called in any order on the frames of
\* one viewer; the clock advances by MaxStep from frame to frame and by half
\* a second or MaxStep from one update_engagement call to the next
ApiProcessFrame == GazeRequestOn({"center", "away", NoFace}, {FALSE}, {MaxStep})
ApiCalibrate == CalibrateOn({"center", "away"}, {Identity})
ApiUpdateEngagement ==
    UpdateEngagementTracked(BOOLEAN, {TicksPerHalfSecond, MaxStep}, MaxTime, FALSE)
ApiNext == ApiProcessFrame \/ ApiCalibrate \/ ApiUpdateEngagement
ApiSpec == Init /\ [][ApiNext]_vars

\* the chat of one browser session: /synthesize requests with a short, a long
\* or no text, to which the model and the speech synthesis answer or fail
Synthesize == SynthesizeBy({"s1"})
ChatNext == Synthesize
ChatSpec == Init /\ [][ChatNext]_vars

\* ------------------------------------------------------------- claims ----

\* C1: every DISENGAGED -> ENGAGED transition happens on an is_looking=true
\* frame whose clock reading is at least 1.0 s later than that of the first
\* is_looking=true frame processed since the detector was last DISENGAGED
\* without a pending timestamp; so the state is never ENGAGED before 1.0 s
\* has elapsed since that frame.
C1_EngagedOnlyAfterOneSecond ==
    [][(state = "DISENGAGED" /\ state' = "ENGAGED")
         => /\ last'.is_looking
            /\ pending_since # None
            /\ clock' - Val(pending_since) >= OneSecond]_vars

\* a commit to ENGAGED has just happened
C1_Witness ==
    /\ last.op = "update_engagement"
    /\ last.prev_state = "DISENGAGED"
    /\ state = "ENGAGED"

\* C2: every ENGAGED -> DISENGAGED transition happens on an is_looking=false
\* frame whose clock reading is at least 0.5 s later than that of the first
\* is_looking=false frame processed since the detector became ENGAGED.
C2_DisengagedOnlyAfterHalfSecond ==
    [][(state = "ENGAGED" /\ state' = "DISENGAGED")
         => /\ ~last'.is_looking
            /\ pending_since # None
            /\ clock' - Val(pending_since) >= HalfSecond]_vars

\* a commit to DISENGAGED has just happened
C2_Witness ==
    /\ last.op = "update_engagement"
    /\ last.prev_state = "ENGAGED"
    /\ state = "DISENGAGED"

\* C3: the state changes to ENGAGED only if is_looking was true on every frame
\* processed during the preceding 1.0 s, and to DISENGAGED only if it was
\* false on every frame processed during the preceding 0.5 s: the frame
\* before the current run of equal frames, if there is one, lies at least
\* that long back.
C3_ConditionHeldContinuously ==
    [][/\ (state # "ENGAGED" /\ state' = "ENGAGED")
            => /\ run'.kind = "looking"
               /\ run'.before # None => clock' - Val(run'.before) >= OneSecond
       /\ (state # "DISENGAGED" /\ state' = "DISENGAGED")
            => /\ run'.kind # "looking"
               /\ run'.before # None => clock' - Val(run'.before) >= HalfSecond]_vars

\* C4: while DISENGAGED with a pending timestamp, an is_looking=true frame at
\* least 1.0 s after the pending timestamp sets the state to ENGAGED and
\* clears the pending timestamp; and when is_looking=true frames keep
\* arriving at advancing clock readings, the state eventually is ENGAGED.
C4_LookingFramesEngage ==
    /\ [][(/\ state = "DISENGAGED"
           /\ state_change_time # None
           /\ last'.op = "update_engagement"
           /\ last'.is_looking
           /\ clock' - Val(state_change_time) >= OneSecond)
            => (state' = "ENGAGED" /\ state_change_time' = None)]_vars
    /\ <>(state = "ENGAGED")

\* an is_looking=true frame has committed the detector to ENGAGED
C4_Witness ==
    /\ last.op = "update_engagement"
    /\ last.is_looking
    /\ last.prev_state = "DISENGAGED"
    /\ state = "ENGAGED"
    /\ state_change_time = None
    /\ clock >= OneSecond

\* C5: a frame without a face goes through the state machine as a frame with
\* is_looking=false does: it hands is_looking=false to update_engagement and
\* leaves state and state_change_time as update_engagement(False) at that
\* clock reading leaves them. So once the frames without a face have lasted
\* 0.5 s (the clock reading of the last one is at least 0.5 s after that of
\* the first), the state is DISENGAGED and process_frame reports
\* engaged=false.
C5_NoFaceFramesDisengage ==
    [][/\ (last'.op = "gaze" /\ last'.status = 200 /\ last'.frame = "noface") =>
            /\ ~last'.is_looking
            /\ state' = update_engagement(Self, FALSE, clock').self.state
            /\ state_change_time' =
                   update_engagement(Self, FALSE, clock').self.state_change_time
       /\ (run'.kind = "noface" /\ clock' - run'.since >= HalfSecond) =>
            /\ state' = "DISENGAGED"
            /\ last'.status = 200 => ~last'.engaged]_vars

\* an ENGAGED detector that a frame without a face, 0.5 s or more after the
\* first of its run, has just made DISENGAGED
C5_Witness ==
    /\ last.op = "gaze" /\ last.status = 200 /\ last.frame = "noface"
    /\ last.prev_state = "ENGAGED" /\ state = "DISENGAGED" /\ ~last.engaged
    /\ run.kind = "noface" /\ clock - run.since >= HalfSecond

\* C6: while no calibration has succeeded (the spheres are not locked), every
\* process_frame call on a frame with a face returns gaze_angle = None and
\* engaged = False, and the state stays DISENGAGED, whatever frames came
\* before.
C6_UncalibratedNeverEngaged ==
    (/\ last.op = "gaze" /\ last.status = 200 /\ last.frame = "face"
     /\ ~(left_sphere_locked /\ right_sphere_locked)) =>
        /\ last.gaze_angle = None
        /\ ~last.engaged
        /\ state = "DISENGAGED"

\* a face frame processed by a detector never calibrated, a second or more
\* after the first request
C6_Witness ==
    /\ last.op = "gaze" /\ last.status = 200 /\ last.frame = "face"
    /\ ~left_sphere_locked /\ ~right_sphere_locked
    /\ last.gaze_angle = None /\ ~last.engaged
    /\ clock >= OneSecond

\* C7, as the code has it: every process_frame call on a frame without a face
\* returns gaze_angle = None and hands is_looking=false to the state machine;
\* the engaged it returns is (state == ENGAGED) after that update, so it is
\* True exactly when the detector was ENGAGED before the call and less than
\* 0.5 s has passed since the pending disengagement was stamped, and False
\* otherwise.
C7_NoFaceReportsState ==
    (last.op = "gaze" /\ last.status = 200 /\ last.frame = "noface") =>
        /\ last.gaze_angle = None
        /\ ~last.is_looking
        /\ last.engaged = (state = "ENGAGED")
        /\ last.engaged =>
             /\ last.prev_state = "ENGAGED"
             /\ state_change_time # None
             /\ clock - Val(state_change_time) < HalfSecond

\* a frame without a face for which process_frame returned engaged = True
C7_Witness ==
    /\ last.op = "gaze" /\ last.status = 200 /\ last.frame = "noface"
    /\ last.prev_state = "ENGAGED" /\ last.engaged /\ last.gaze_angle = None

\* C7, as stated: every process_frame call on a frame without a face returns
\* engaged = False and gaze_angle = None, whatever the state before the call
C7_NoFaceNeverEngaged ==
    (last.op = "gaze" /\ last.status = 200 /\ last.frame = "noface") =>
        (~last.engaged /\ last.gaze_angle = None)

\* C8: the engaged that process_frame returns equals (state == ENGAGED) after
\* the frame's update of the state machine; it is not the frame's is_looking,
\* from which it differs on the frame of the witness.
C8_EngagedIsStateAfterUpdate ==
    (last.op = "gaze" /\ last.status = 200) => last.engaged = (state = "ENGAGED")

\* a face frame with is_looking=false for which engaged = True was returned
\* (the detector became ENGAGED on earlier frames, the first of which had
\* is_looking=true and returned engaged = False)
C8_Witness ==
    /\ last.op = "gaze" /\ last.status = 200 /\ last.frame = "face"
    /\ last.gaze_angle # None /\ ~last.is_looking /\ last.engaged

\* C9: a /gaze request that asks for calibration on a frame without a face
\* leaves both eyes' locked flags, offsets and reference scales unchanged,
\* calls calibrate for neither eye, and is answered with status 200.
C9_NoFaceCalibrationIsNoOp ==
    [][(last'.op = "gaze" /\ last'.calibrate /\ last'.frame = "noface") =>
            /\ UNCHANGED calibVars
            /\ left_sphere_locked' = right_sphere_locked'
            /\ last'.calib_in = None
            /\ last'.status = 200]_vars

\* a calibration request on a frame without a face, made to a detector that
\* holds a calibration
C9_Witness ==
    /\ last.op = "gaze" /\ last.calibrate /\ last.frame = "noface"
    /\ last.status = 200
    /\ left_sphere_locked /\ right_sphere_locked

\* C10: after a calibrate call, both eyes' locked flags, offsets and reference
\* scales are those the same call leaves in a new detector: they depend on
\* the call's landmarks, head center, rotation and nose points alone. So a
\* second call in a row with the same inputs changes none of them.
C10_CalibrationFromInputsOnly ==
    [][/\ last'.calib_in # None =>
            LET f == last'.calib_in[1]
                R_final == last'.calib_in[2]
            IN  calibVars' =
                    CalibrationOf(calibrate(NewDetector, f,
                                            MeanSeq(Landmarks(f).nose), R_final,
                                            Landmarks(f).nose))
       /\ last'.repeat => UNCHANGED calibVars]_vars

\* calibrate called twice in a row with the same inputs
C10_Witness ==
    /\ last.op = "calibrate" /\ last.repeat
    /\ left_sphere_locked /\ right_sphere_locked

\* C11: the gaze history never holds more than 10 vectors; a frame that
\* pushes a vector appends it after the vectors already held when there are
\* fewer than 10 of them, and otherwise drops the oldest one and appends it
\* after the 9 others, which keep their order. So the history is the most
\* recent min(n, 10) combined gaze vectors in arrival order.
C11_HistoryIsBoundedFifo ==
    [][/\ Len(gaze_history') <= GAZE_HISTORY_MAXLEN
       /\ (/\ last'.op = "gaze" /\ last'.status = 200 /\ last'.frame = "face"
           /\ left_sphere_locked' /\ right_sphere_locked') =>
            LET n == Len(gaze_history)
                m == Len(gaze_history')
            IN  /\ m = IF n < GAZE_HISTORY_MAXLEN THEN n + 1 ELSE GAZE_HISTORY_MAXLEN
                /\ n < GAZE_HISTORY_MAXLEN =>
                     SubSeq(gaze_history', 1, n) = gaze_history
                /\ n >= GAZE_HISTORY_MAXLEN =>
                     SubSeq(gaze_history', 1, m - 1) = Tail(gaze_history)]_vars

\* a full history after more than 10 pushes, its oldest vector unlike its
\* newest
C11_Witness ==
    /\ Len(gaze_history) = GAZE_HISTORY_MAXLEN
    /\ clock > GAZE_HISTORY_MAXLEN
    /\ gaze_history[1] # gaze_history[GAZE_HISTORY_MAXLEN]

\* C12: a /gaze request of one session leaves the detector that serves every
\* other session as it was: its calibration, gaze history, engagement state
\* and pending timestamp.
C12_SessionsHaveOwnDetector ==
    [][\A s \in Sessions :
         (last'.op = "gaze" /\ last'.session # s) => DetectorOf(s)' = DetectorOf(s)]_vars

\* C13: /learn answers with the main page only to a session an earlier /gaze
\* request of which called calibrate (and so locked both eyes).
C13_LearnOnlyAfterCalibration ==
    (last.op = "learn" /\ last.status = 200) => last.session \in calibrated_by

\* C14: an update_engagement call with is_looking=false while DISENGAGED, or
\* with is_looking=true while ENGAGED, changes neither the state nor the
\* pending timestamp: a timestamp recorded earlier survives the interruption.
C14_InterruptionKeepsTimer ==
    [][(/\ last'.op = "update_engagement"
        /\ \/ state = "DISENGAGED" /\ ~last'.is_looking
           \/ state = "ENGAGED" /\ last'.is_looking) =>
            UNCHANGED <<state, state_change_time>>]_vars

\* an is_looking=false frame, processed while DISENGAGED, after which the
\* timestamp of an earlier is_looking=true frame is still pending
C14_Witness ==
    /\ last.op = "update_engagement" /\ ~last.is_looking
    /\ last.prev_state = "DISENGAGED" /\ state = "DISENGAGED"
    /\ state_change_time # None /\ clock > Val(state_change_time)

\* C15: the state is DISENGAGED before the first call and ENGAGED or
\* DISENGAGED after any sequence of process_frame, update_engagement and
\* calibrate calls; it is never TRANSITIONING.
C15_TransitioningUnreachable ==
    /\ state \in {"ENGAGED", "DISENGAGED"}
    /\ last.op = "init" => state = "DISENGAGED"

\* a detector that calls of update_engagement or process_frame made ENGAGED
\* and on which calibrate was then called
C15_Witness ==
    /\ state = "ENGAGED" /\ last.op = "calibrate" /\ state_change_time # None

\* C16: process_frame and update_engagement change neither eye's locked flag,
\* local offset or reference scale; and no call unlocks a locked eye.
C16_CalibrationWrittenOnlyByCalibrate ==
    [][/\ (\/ last'.op = "update_engagement"
           \/ last'.op = "gaze" /\ ~last'.calibrate) => UNCHANGED calibVars
       /\ left_sphere_locked => left_sphere_locked'
       /\ right_sphere_locked => right_sphere_locked']_vars

\* process_frame on a calibrated detector, on a frame with a face and on one
\* without, after a calibration on the frame "away"
C16_Witness ==
    /\ last.op = "gaze" /\ ~last.calibrate /\ last.frame = "noface"
    /\ left_sphere_locked /\ right_sphere_locked
    /\ Len(gaze_history) > 0
    /\ calibVars = CalibrationOf(calibrate(NewDetector, "away",
                       MeanSeq(Landmarks("away").nose), Identity,
                       Landmarks("away").nose))

\* C17: the reference rotation is None until the first frame with a face is
\* processed, by process_frame or by a calibration request; that frame's
\* compute_head_pose call sets it to the frame's rotation, and no later call
\* changes it.
C17_ReferenceRotationSetOnce ==
    [][/\ R_ref_nose # None => UNCHANGED R_ref_nose
       /\ R_ref_nose = None =>
            IF last'.op = "gaze" /\ last'.frame = "face"
            THEN R_ref_nose' \in {Landmarks(f).basis : f \in FaceFrames}
            ELSE R_ref_nose' = None]_vars

\* a calibration request on a frame whose rotation is not the reference
\* rotation, which an earlier frame has set
C17_Witness ==
    /\ last.op = "gaze" /\ last.calib_in # None
    /\ R_ref_nose # None
    /\ Landmarks(last.calib_in[1]).basis # R_ref_nose

\* C18: in every state both eyes are locked or neither is, and when they are
\* locked their reference scales are equal.
C18_EyesCalibratedTogether ==
    /\ left_sphere_locked = right_sphere_locked
    /\ left_sphere_locked =>
         /\ left_calibration_nose_scale # None
         /\ left_calibration_nose_scale = right_calibration_nose_scale

\* a detector calibrated on the frame "near", whose reference scale is that
\* of no other frame
C18_Witness ==
    /\ left_sphere_locked /\ right_sphere_locked
    /\ last.calib_in # None /\ last.calib_in[1] = "near"
    /\ left_calibration_nose_scale = Some(compute_scale(Landmarks("near").nose))
    /\ left_calibration_nose_scale # Some(compute_scale(Landmarks("center").nose))

\* C19: the pending timestamp is None right after every state change, and a
\* pending timestamp is always the clock reading of the first frame, since
\* the last state change, whose is_looking opposes the current state: it was
\* recorded in the current state, for the direction the current state
\* compares it in.
C19_TimestampBelongsToState ==
    [][/\ state' # state => state_change_time' = None
       /\ state_change_time' = pending_since'
       /\ state_change_time' # None => Val(state_change_time') <= clock']_vars

\* a state change, either way, that left no pending timestamp, after an
\* earlier change in the other direction
C19_Witness ==
    /\ last.op = "update_engagement"
    /\ last.prev_state = "ENGAGED" /\ state = "DISENGAGED"
    /\ state_change_time = None /\ pending_since = None

\* C20: a process_frame call on a frame with a face, on a calibrated detector,
\* pushes exactly one vector onto the gaze history; every other call (a frame
\* without a face, a frame before calibration, calibrate, update_engagement)
\* leaves the history unchanged. So the vectors held at a recalibration stay.
C20_HistoryChangesOnlyOnCalibratedFaceFrames ==
    [][IF /\ last'.op = "gaze" /\ last'.status = 200 /\ last'.frame = "face"
          /\ left_sphere_locked' /\ right_sphere_locked'
       THEN /\ Len(gaze_history') > 0
            /\ gaze_history' = Push(gaze_history, gaze_history'[Len(gaze_history')])
       ELSE UNCHANGED gaze_history]_vars

\* a calibrate call that replaced the calibration while the history held
\* vectors, all of them computed before the call
C20_Witness ==
    /\ last.op = "calibrate" /\ ~last.repeat
    /\ Len(gaze_history) > 0
    /\ calibVars = CalibrationOf(calibrate(NewDetector, "away",
                       MeanSeq(Landmarks("away").nose), Identity,
                       Landmarks("away").nose))
    /\ calculate_gaze_angle(gaze_history[1]) < ENGAGEMENT_ANGLE_THRESHOLD

\* C21: starting from an empty chat history, after any sequence of
\* /synthesize requests the session's chat_history holds at most 10
\* messages: the last min(n, 10) of the n messages remembered so far, user
\* and assistant messages alternating from a user message on. A request
\* that succeeds appends the user message and then the assistant reply and
\* drops the oldest messages beyond 10; a request that fails (no text, model
\* failure, speech-synthesis failure) leaves chat_history unchanged.
C21_ChatHistoryKeepsLastTen ==
    [][\A s \in Sessions :
         LET h == chat_history[s]
             h2 == chat_history'[s]
             n == Len(h2)
             kept == IF Len(h) + 2 <= CHAT_HISTORY_MAXLEN THEN h
                     ELSE SubSeq(h, Len(h) + 3 - CHAT_HISTORY_MAXLEN, Len(h))
         IN  /\ n <= CHAT_HISTORY_MAXLEN
             /\ n = IF chat_count'[s] < CHAT_HISTORY_MAXLEN
                    THEN chat_count'[s] ELSE CHAT_HISTORY_MAXLEN
             /\ \A i \in 1..n :
                  h2[i].role = IF i % 2 = 1 THEN "user" ELSE "assistant"
             /\ (last'.op = "synthesize" /\ last'.session = s) =>
                  IF last'.status = 200
                  THEN /\ n >= 2
                       /\ SubSeq(h2, 1, n - 2) = kept
                       /\ h2[n - 1].text \in
                            {truncate_text(u) : u \in UserInputs \ {<<>>}}
                       /\ h2[n].text \in
                            {truncate_text(a) : a \in AiResponses \ {None}}
                  ELSE h2 = h]_vars

\* a request that failed after more than 10 messages had been remembered,
\* the oldest message kept unlike the newest user message
C21_Witness ==
    /\ last.op = "synthesize" /\ last.status = 500
    /\ chat_count["s1"] > CHAT_HISTORY_MAXLEN
    /\ Len(chat_history["s1"]) = CHAT_HISTORY_MAXLEN
    /\ chat_history["s1"][1].text # chat_history["s1"][CHAT_HISTORY_MAXLEN - 1].text

====
